---- MODULE Spec2Model ----
(***************************************************************************)
(* Decoding and pagination layer of gophercloud:                           *)
(*   openstack/imageservice/v2/images/results.go   (Image, ImagePage)      *)
(*   openstack/blockstorage/v2/volumes/results.go  (Volume, VolumePage)    *)
(*                                                                         *)
(* A JSON value is a record [t, s, n, o]:                                  *)
(*   t  the JSON type ("absent" stands for a key that is not in the        *)
(*      object), s the text of a string (or the literal form of a number:  *)
(*      "int" for 1073741824, "float" for 1073741824.0), n a number in     *)
(*      TENTHS (15 is 1.5), o the members of an object of strings.         *)
(***************************************************************************)
EXTENDS Integers, Sequences, FiniteSets, TLC

VARIABLES
    payload,    \* b []byte: the JSON object handed to the decoder
    rErr,       \* gophercloud.Result.Err of the envelope around payload
    pc,         \* which operation has been applied to payload
    imgErr,     \* error returned by the image operation
    img,        \* the Image the operation filled (*s / the pointee of Extract)
    imgPtr,     \* whether Extract returned a non-nil *Image
    volErr,     \* error returned by the volume operation
    vol,        \* the Volume the operation filled
    volPtr,     \* whether Extract returned a non-nil *Volume
    kind,       \* "image" or "volume": the page type of the list being read
    chain,      \* the server's pages, page i+1 being the one page i links to
    cur,        \* index in chain of the page in hand (0: none)
    got,        \* entities returned by Extract, or collected by the walk
    empty,      \* what IsEmpty returned
    loc,        \* what NextPageURL returned / the locator to fetch next
    perr,       \* the error of the page operation or of the walk
    fetches     \* page fetches the Pager has issued

decodeVars == <<payload, rErr, imgErr, img, imgPtr, volErr, vol, volPtr>>
pageVars == <<kind, chain, cur, got, empty, loc, perr, fetches>>
vars == <<pc, decodeVars, pageVars>>

----------------------------------------------------------------------------
(* Bounds of the model *)

\* sizes on the wire range over -MaxSize .. MaxSize + 1/2, in steps of 1/2
MaxSize == 1

\* the longest chain of pages the server holds
MaxPages == 2

----------------------------------------------------------------------------
(* JSON values *)

EmptyMap == [k \in {} |-> ""]

JAbsent == [t |-> "absent", s |-> "", n |-> 0, o |-> EmptyMap]
JNull == [t |-> "null", s |-> "", n |-> 0, o |-> EmptyMap]
JStr(x) == [t |-> "string", s |-> x, n |-> 0, o |-> EmptyMap]
JNum(tenths, lit) == [t |-> "number", s |-> lit, n |-> tenths, o |-> EmptyMap]
JObj(m) == [t |-> "object", s |-> "", n |-> 0, o |-> m]

\* the literal 1.5 has no integer form; 1 can be written 1 or 1.0
SizeNumbers ==
    {JNum(10 * v + f, "float") : v \in (0 - MaxSize)..MaxSize, f \in {0, 5}}
    \cup {JNum(10 * v, "int") : v \in (0 - MaxSize)..MaxSize}

GoodCreated == "2016-01-01T10:00:00Z"
GoodUpdated == "2016-02-02T20:00:00Z"
BadTime == "2016-01-01 10:00"

IdValues == {JAbsent, JStr("img-1"), JNum(70, "int")}
SizeValues == SizeNumbers \cup {JAbsent, JNull, JStr("big")}
CreatedValues == {JAbsent, JStr(GoodCreated), JStr(BadTime), JNum(10, "int")}
UpdatedValues == {JAbsent, JStr(GoodUpdated), JStr(BadTime), JNum(10, "int")}
PropertiesValues == {JAbsent, JObj([k \in {"id"} |-> "nested"])}
FooValues == {JAbsent, JStr("bar"), JNum(70, "int")}
TmpValues == {JAbsent, JStr("scratch")}

\* the JSON objects the decoders are run on
Payloads ==
    [id : IdValues, size : SizeValues, created_at : CreatedValues,
     updated_at : UpdatedValues, properties : PropertiesValues,
     foo : FooValues, tmp : TmpValues]

\* the keys that are present in the object b
TopLevelKeys(b) == {k \in DOMAIN b : b[k].t # "absent"}

----------------------------------------------------------------------------
(* Library conversions used by the decoders *)

\* time.Time{} and the values time.Parse yields, printed as Go prints them
ZeroTime == "0001-01-01 00:00:00 +0000 UTC"

RFC3339Times ==
    (GoodCreated :> "2016-01-01 10:00:00 +0000 UTC")
    @@ (GoodUpdated :> "2016-02-02 20:00:00 +0000 UTC")

\* time.Parse(time.RFC3339, s): the zero time and an error for anything that
\* is not an RFC3339 text, the empty string included
ParseRFC3339(s) ==
    IF s \in DOMAIN RFC3339Times
    THEN [time |-> RFC3339Times[s], err |-> "none"]
    ELSE [time |-> ZeroTime, err |-> "ParseError"]

\* int64(t) of a float64 given in tenths: the fraction is cut off towards zero
AsInt64RoundsDown(tenths) == tenths \div 10

AsInt64(tenths) ==
    IF tenths >= 0 THEN tenths \div 10 ELSE 0 - ((0 - tenths) \div 10)

\* strings.ToLower on the Go field names that carry no json tag
ToLower(name) ==
    CASE name = "tmp" -> "tmp"
      [] name = "SizeBytes" -> "sizebytes"
      [] OTHER -> name

----------------------------------------------------------------------------
(* images: the Image struct and its decoder *)

Tagged(name, tag) == [name |-> name, hasTag |-> TRUE, tag |-> tag]
Untagged(name) == [name |-> name, hasTag |-> FALSE, tag |-> ""]

\* type Image struct: Go field name and json tag, in declaration order
ImageStruct ==
    << Tagged("ID", "id"), Tagged("Name", "name"), Tagged("Status", "status"),
       Tagged("Tags", "tags"), Tagged("ContainerFormat", "container_format"),
       Tagged("DiskFormat", "disk_format"), Tagged("MinDiskGigabytes", "min_disk"),
       Tagged("MinRAMMegabytes", "min_ram"), Tagged("Owner", "owner"),
       Tagged("Protected", "protected"), Tagged("Visibility", "visibility"),
       Tagged("Checksum", "checksum"), Tagged("SizeBytes", "size"),
       Tagged("Metadata", "metadata"), Tagged("Properties", "properties"),
       Tagged("CreatedAt", "-"), Tagged("UpdatedAt", "-"),
       Tagged("File", "file"), Tagged("Schema", "schema"),
       Tagged("VirtualSize", "virtual_size"), Tagged("Self", "self"),
       Tagged("DirectURL", "direct_url"), Tagged("Locations", "locations") >>

\* the struct p of UnmarshalJSON: the embedded tmp and the three fields that
\* are decoded by hand
TmpStruct ==
    << Untagged("tmp"), Tagged("SizeBytes", "size"),
       Tagged("CreatedAt", "created_at"), Tagged("UpdatedAt", "updated_at") >>

\* jsonTagKeys: the json key of every field, fields tagged "-" left out, an
\* untagged field under its lowercased Go name
RECURSIVE jsonTagKeys(_)
jsonTagKeys(fields) ==
    IF fields = << >> THEN << >>
    ELSE LET field == Head(fields)
             key == IF field.hasTag THEN field.tag ELSE ""
         IN  IF field.hasTag /\ key = "-" THEN jsonTagKeys(Tail(fields))
             ELSE << IF key = "" THEN ToLower(field.name) ELSE key >>
                  \o jsonTagKeys(Tail(fields))

Range(seq) == {seq[i] : i \in DOMAIN seq}

\* the zero Image (of the fields the model follows); Properties nil
ZeroImage ==
    [ID |-> "", SizeBytes |-> 0, CreatedAt |-> ZeroTime, UpdatedAt |-> ZeroTime,
     Properties |-> EmptyMap]

\* json.Unmarshal(b, &p): a key that is absent or null leaves its field as it
\* was; a value of the wrong JSON type for a typed field is an
\* UnmarshalTypeError, reported once the whole object has been read;
\* SizeBytes is an interface{} and takes any value
DecodeTmp(b) ==
    LET stringOK(v) == v.t \in {"absent", "null", "string"}
        objectOK(v) == v.t \in {"absent", "null", "object"}
    IN  [err |-> IF /\ stringOK(b.id) /\ stringOK(b.created_at)
                    /\ stringOK(b.updated_at) /\ objectOK(b.properties)
                 THEN "none" ELSE "UnmarshalTypeError",
         ID |-> IF b.id.t = "string" THEN b.id.s ELSE "",
         Properties |-> IF b.properties.t = "object" THEN b.properties.o ELSE EmptyMap,
         SizeBytes |-> IF b.size.t = "absent" THEN JNull ELSE b.size,
         CreatedAt |-> IF b.created_at.t = "string" THEN b.created_at.s ELSE "",
         UpdatedAt |-> IF b.updated_at.t = "string" THEN b.updated_at.s ELSE ""]

\* Image(p.tmp): the embedded Image; its own size field is shadowed by
\* p.SizeBytes and its timestamps are tagged "-"
ImageOfTmp(p) ==
    [ZeroImage EXCEPT !.ID = p.ID, !.Properties = p.Properties]

\* the fields unmarshalCustomProperties deletes from the generic map
KnownFields(st) == jsonTagKeys(ImageStruct) \o jsonTagKeys(st)

\* unmarshalCustomProperties: every top-level key but the known fields, and
\* of those only the ones holding a string, becomes s.Properties (b was
\* parsed once already, so parsing it into the generic map cannot fail)
unmarshalCustomProperties(s, b, st) ==
    LET custom == TopLevelKeys(b) \ Range(KnownFields(st))
        kept == {k \in custom : b[k].t = "string"}
    IN  [err |-> "none", img |-> [s EXCEPT !.Properties = [k \in kept |-> b[k].s]]]

\* (s *Image) UnmarshalJSON(b), s pointing at a zero Image
Image_UnmarshalJSON(b) ==
    LET p == DecodeTmp(b)
        s0 == ImageOfTmp(p)
    IN  IF p.err # "none" THEN [err |-> p.err, img |-> ZeroImage]
        ELSE IF p.SizeBytes.t = "null" THEN [err |-> "none", img |-> s0]
        ELSE IF p.SizeBytes.t # "number"
        THEN [err |-> "UnknownSizeType", img |-> s0]
        ELSE LET s1 == [s0 EXCEPT !.SizeBytes = AsInt64(p.SizeBytes.n)]
                 created == ParseRFC3339(p.CreatedAt)
                 s2 == [s1 EXCEPT !.CreatedAt = created.time]
                 updated == ParseRFC3339(p.UpdatedAt)
                 s3 == [s2 EXCEPT !.UpdatedAt = updated.time]
             IN  IF created.err # "none" THEN [err |-> created.err, img |-> s2]
                 ELSE unmarshalCustomProperties(s3, b, TmpStruct)

----------------------------------------------------------------------------
(* volumes: the Volume struct, decoded by encoding/json alone *)

ZeroVolume == [ID |-> "", Size |-> 0]

\* json.Unmarshal(b, &s) for s of type Volume.  Size is a Go int: only a
\* number written as an integer fits it, any other number or type is an
\* UnmarshalTypeError that leaves the field alone while the rest of the
\* object is still decoded.
Volume_Unmarshal(b) ==
    LET idOK == b.id.t \in {"absent", "null", "string"}
        sizeOK == \/ b.size.t \in {"absent", "null"}
                  \/ b.size.t = "number" /\ b.size.s = "int"
    IN  [err |-> IF idOK /\ sizeOK THEN "none" ELSE "UnmarshalTypeError",
         vol |-> [ID |-> IF b.id.t = "string" THEN b.id.s ELSE "",
                  Size |-> IF b.size.t = "number" /\ b.size.s = "int"
                           THEN b.size.n \div 10 ELSE 0]]

----------------------------------------------------------------------------
(* Result envelopes *)

TransportErrors == {"none", "ErrUnexpectedResponseCode", "ErrTimeout"}

\* gophercloud.Result.ExtractInto: the envelope's own error comes back as it
\* is and the body is not looked at; otherwise the body is decoded
Result_ExtractInto(err, decoded) ==
    IF err # "none" THEN [err |-> err, decoded |-> FALSE]
    ELSE [err |-> decoded.err, decoded |-> TRUE]

\* images.commonResult.Extract: var s *Image; err := r.ExtractInto(&s);
\* return s, err.  s stays nil unless the decoder allocated it.
ImageExtractDropsError(r, b) ==
    LET d == Image_UnmarshalJSON(b)
        x == Result_ExtractInto(r, d)
    IN  [ptr |-> x.decoded, img |-> IF x.decoded THEN d.img ELSE ZeroImage,
         err |-> "none"]

Image_Extract(r, b) ==
    LET d == Image_UnmarshalJSON(b)
        x == Result_ExtractInto(r, d)
    IN  [ptr |-> x.decoded, img |-> IF x.decoded THEN d.img ELSE ZeroImage,
         err |-> x.err]

\* volumes.commonResult.Extract: var s Volume; err := r.ExtractInto(&s);
\* return &s, err.  The pointer is never nil.
Volume_Extract(r, b) ==
    LET d == Volume_Unmarshal(b)
        x == Result_ExtractInto(r, d)
    IN  [ptr |-> TRUE, vol |-> IF x.decoded THEN d.vol ELSE ZeroVolume,
         err |-> x.err]

----------------------------------------------------------------------------
(* List pages *)

\* items of a page's resource array
ImageA ==
    [id |-> JStr("img-1"), size |-> JNum(10, "int"),
     created_at |-> JStr(GoodCreated), updated_at |-> JStr(GoodUpdated),
     properties |-> JAbsent, foo |-> JStr("bar"), tmp |-> JAbsent]
ImageB == [ImageA EXCEPT !.size = JNum(15, "float"), !.foo = JAbsent]
ImageNoCreated == [ImageA EXCEPT !.created_at = JAbsent]
ImageBad == [ImageA EXCEPT !.size = JStr("big")]

VolumeA ==
    [id |-> JStr("img-1"), size |-> JNum(10, "int"),
     created_at |-> JAbsent, updated_at |-> JAbsent,
     properties |-> JAbsent, foo |-> JAbsent, tmp |-> JAbsent]
VolumeB == [VolumeA EXCEPT !.size = JNum(0, "int")]
VolumeBad == [VolumeA EXCEPT !.size = JStr("big")]

ItemLists(k) ==
    IF k = "image"
    THEN {<< >>, <<ImageA>>, <<ImageB>>, <<ImageA, ImageB>>,
          <<ImageNoCreated>>, <<ImageA, ImageBad, ImageB>>}
    ELSE {<< >>, <<VolumeA>>, <<VolumeB>>, <<VolumeA, VolumeB>>,
          <<VolumeA, VolumeBad, VolumeB>>}

\* the pagination metadata of a page: no next reference at all, an empty
\* one, a reference to the following page, or a value of the wrong JSON type
NextKinds == {"absent", "empty", "link", "malformed"}

PageBodies(k) == [items : ItemLists(k), next : NextKinds]

Chains(k) == UNION {[1..n -> PageBodies(k)] : n \in 1..MaxPages}

ImageEndpoint == "http://glance:9292"
ImagePath(i) == "/v2/images?marker=" \o ToString(i)
VolumeURL(i) == "http://cinder:8776/v2/volumes?marker=" \o ToString(i)

\* LinkedPageBase.URL.String() of page i
PageURL(k, i) == IF k = "image" THEN ImageEndpoint \o ImagePath(i) ELSE VolumeURL(i)

\* the page the server answers a locator with (0: the fetch fails)
Fetch(k, ch, url) ==
    IF \E i \in DOMAIN ch : PageURL(k, i) = url
    THEN CHOOSE i \in DOMAIN ch : PageURL(k, i) = url
    ELSE 0

\* body field "next" of image page i
NextField(ch, i) ==
    CASE ch[i].next = "absent" -> JAbsent
      [] ch[i].next = "empty" -> JStr("")
      [] ch[i].next = "link" -> JStr(ImagePath(i + 1))
      [] OTHER -> JNum(70, "int")

\* body field "volumes_links" of volume page i: a list of {rel, href}
Link(rel, href) == [Rel |-> rel, Href |-> href]

LinksField(ch, i) ==
    CASE ch[i].next = "absent" -> [present |-> FALSE, ok |-> TRUE, links |-> << >>]
      [] ch[i].next = "empty" ->
           [present |-> TRUE, ok |-> TRUE,
            links |-> << Link("self", VolumeURL(i)) >>]
      [] ch[i].next = "link" ->
           [present |-> TRUE, ok |-> TRUE,
            links |-> << Link("self", VolumeURL(i)), Link("next", VolumeURL(i + 1)) >>]
      [] OTHER -> [present |-> TRUE, ok |-> FALSE, links |-> << >>]

\* encoding/json on the "images" array: Image has its own UnmarshalJSON, and
\* the first element whose decoder fails ends the decoding, the slice already
\* grown to hold that element
RECURSIVE DecodeImages(_)
DecodeImages(items) ==
    IF items = << >> THEN [list |-> << >>, err |-> "none"]
    ELSE LET d == Image_UnmarshalJSON(Head(items))
             rest == DecodeImages(Tail(items))
         IN  IF d.err # "none" THEN [list |-> << d.img >>, err |-> d.err]
             ELSE [list |-> << d.img >> \o rest.list, err |-> rest.err]

\* encoding/json on the "volumes" array: a type error is remembered (the
\* first one) and the remaining elements are decoded all the same
RECURSIVE DecodeVolumes(_)
DecodeVolumes(items) ==
    IF items = << >> THEN [list |-> << >>, err |-> "none"]
    ELSE LET d == Volume_Unmarshal(Head(items))
             rest == DecodeVolumes(Tail(items))
         IN  [list |-> << d.vol >> \o rest.list,
              err |-> IF d.err # "none" THEN d.err ELSE rest.err]

\* ExtractImages with the elements appended in front of the slice
ExtractImagesReversed(ch, i) ==
    LET d == DecodeImages(ch[i].items)
        x == Result_ExtractInto("none", d)
    IN  [list |-> [j \in 1..Len(d.list) |-> d.list[Len(d.list) + 1 - j]],
         err |-> x.err]

\* ExtractImages with the error of ExtractInto dropped
ExtractImagesDropsError(ch, i) ==
    [list |-> DecodeImages(ch[i].items).list, err |-> "none"]

\* ExtractImages: s.Images and the error of ExtractInto, both as they are
ExtractImages(ch, i) ==
    LET d == DecodeImages(ch[i].items)
        x == Result_ExtractInto("none", d)
    IN  [list |-> d.list, err |-> x.err]

\* ExtractVolumes
ExtractVolumes(ch, i) ==
    LET d == DecodeVolumes(ch[i].items)
        x == Result_ExtractInto("none", d)
    IN  [list |-> d.list, err |-> x.err]

\* ImagePage.IsEmpty that never reports an empty page
ImagePageNeverEmpty(ch, i) ==
    [empty |-> FALSE, err |-> ExtractImages(ch, i).err]

\* ImagePage.IsEmpty
ImagePage_IsEmpty(ch, i) ==
    LET x == ExtractImages(ch, i)
    IN  [empty |-> Len(x.list) = 0, err |-> x.err]

\* VolumePage.IsEmpty
VolumePage_IsEmpty(ch, i) ==
    LET x == ExtractVolumes(ch, i)
    IN  [empty |-> Len(x.list) = 0, err |-> x.err]

\* images.nextPageURL(currentURL, next): the next reference resolved against
\* the endpoint of the current page's URL; no reference, no locator
nextPageURL(currentURL, next) ==
    IF next = "" THEN ""
    ELSE LET base == CHOOSE b \in {ImageEndpoint} :
                         \E i \in 1..(MaxPages + 1) : b \o ImagePath(i) = currentURL
         IN  base \o next

\* ImagePage.NextPageURL that joins endpoint and reference whatever the
\* reference is
ImagePageNextPageURLJoins(ch, i) ==
    LET f == NextField(ch, i)
    IN  IF f.t \notin {"absent", "null", "string"}
        THEN [url |-> "", err |-> "UnmarshalTypeError"]
        ELSE [url |-> ImageEndpoint \o (IF f.t = "string" THEN f.s ELSE ""),
              err |-> "none"]

\* ImagePage.NextPageURL: decode {Next string `json:"next"`} and resolve it
ImagePage_NextPageURL(ch, i) ==
    LET f == NextField(ch, i)
        x == Result_ExtractInto("none",
                 [err |-> IF f.t \in {"absent", "null", "string"}
                          THEN "none" ELSE "UnmarshalTypeError"])
        Next == IF f.t = "string" THEN f.s ELSE ""
    IN  IF x.err # "none" THEN [url |-> "", err |-> x.err]
        ELSE [url |-> nextPageURL(PageURL("image", i), Next), err |-> "none"]

\* gophercloud.ExtractNextURL(links): the href of the link whose rel is
\* "next" (the last one, if several), the empty locator if there is none
RECURSIVE ExtractNextURL(_)
ExtractNextURL(links) ==
    IF links = << >> THEN [url |-> "", err |-> "none"]
    ELSE LET l == links[Len(links)]
         IN  IF l.Rel = "next" THEN [url |-> l.Href, err |-> "none"]
             ELSE ExtractNextURL(SubSeq(links, 1, Len(links) - 1))

\* VolumePage.NextPageURL: decode {Links []Link `json:"volumes_links"`}
VolumePage_NextPageURL(ch, i) ==
    LET f == LinksField(ch, i)
        x == Result_ExtractInto("none",
                 [err |-> IF f.ok THEN "none" ELSE "UnmarshalTypeError"])
    IN  IF x.err # "none" THEN [url |-> "", err |-> x.err]
        ELSE ExtractNextURL(f.links)

\* the page type's methods, by kind
Extract(k, ch, i) == IF k = "image" THEN ExtractImages(ch, i) ELSE ExtractVolumes(ch, i)
IsEmpty(k, ch, i) ==
    IF k = "image" THEN ImagePage_IsEmpty(ch, i) ELSE VolumePage_IsEmpty(ch, i)
NextPageURL(k, ch, i) ==
    IF k = "image" THEN ImagePage_NextPageURL(ch, i) ELSE VolumePage_NextPageURL(ch, i)

----------------------------------------------------------------------------
(* Decoding one object: the input is drawn in Init, one operation runs *)

NoChain == << >>

InitDecode ==
    /\ payload \in Payloads
    /\ rErr \in TransportErrors
    /\ pc = "input"
    /\ imgErr = "none" /\ img = ZeroImage /\ imgPtr = FALSE
    /\ volErr = "none" /\ vol = ZeroVolume /\ volPtr = FALSE
    /\ kind = "none" /\ chain = NoChain /\ cur = 0 /\ got = << >>
    /\ empty = FALSE /\ loc = "" /\ perr = "none" /\ fetches = 0

\* a list has been requested: the first page is in hand
InitPages ==
    /\ payload = ImageA
    /\ rErr = "none"
    /\ pc = "page"
    /\ imgErr = "none" /\ img = ZeroImage /\ imgPtr = FALSE
    /\ volErr = "none" /\ vol = ZeroVolume /\ volPtr = FALSE
    /\ kind \in {"image", "volume"}
    /\ chain \in Chains(kind)
    /\ cur = 1 /\ got = << >>
    /\ empty = FALSE /\ loc = "" /\ perr = "none" /\ fetches = 0

Init == InitDecode \/ InitPages

\* json.Unmarshal(payload, &image)
UnmarshalImage ==
    /\ pc = "input"
    /\ LET d == Image_UnmarshalJSON(payload)
       IN  /\ imgErr' = d.err
           /\ img' = d.img
           /\ imgPtr' = TRUE
    /\ pc' = "image"
    /\ UNCHANGED <<payload, rErr, volErr, vol, volPtr, pageVars>>

\* json.Unmarshal(payload, &volume); the volume's timestamps are of a type
\* declared outside these files, so only objects without them are decoded
UnmarshalVolume ==
    /\ pc = "input"
    /\ payload.created_at = JAbsent /\ payload.updated_at = JAbsent
    /\ LET d == Volume_Unmarshal(payload)
       IN  /\ volErr' = d.err
           /\ vol' = d.vol
           /\ volPtr' = TRUE
    /\ pc' = "volume"
    /\ UNCHANGED <<payload, rErr, imgErr, img, imgPtr, pageVars>>

\* images: CreateResult / GetResult / UpdateResult .Extract()
ExtractImage ==
    /\ pc = "input"
    /\ LET x == Image_Extract(rErr, payload)
       IN  /\ imgErr' = x.err
           /\ img' = x.img
           /\ imgPtr' = x.ptr
    /\ pc' = "imageExtract"
    /\ UNCHANGED <<payload, rErr, volErr, vol, volPtr, pageVars>>

\* volumes: CreateResult / GetResult / UpdateResult .Extract()
ExtractVolume ==
    /\ pc = "input"
    /\ payload.created_at = JAbsent /\ payload.updated_at = JAbsent
    /\ LET x == Volume_Extract(rErr, payload)
       IN  /\ volErr' = x.err
           /\ vol' = x.vol
           /\ volPtr' = x.ptr
    /\ pc' = "volumeExtract"
    /\ UNCHANGED <<payload, rErr, imgErr, img, imgPtr, pageVars>>

----------------------------------------------------------------------------
(* One page on its own *)

\* ExtractImages(page) / ExtractVolumes(page)
CallExtract ==
    /\ pc = "page"
    /\ \E i \in DOMAIN chain :
          LET x == Extract(kind, chain, i)
          IN  /\ cur' = i
              /\ got' = x.list
              /\ perr' = x.err
    /\ pc' = "extracted"
    /\ UNCHANGED <<decodeVars, kind, chain, empty, loc, fetches>>

\* page.IsEmpty()
CallIsEmpty ==
    /\ pc = "page"
    /\ \E i \in DOMAIN chain :
          LET x == IsEmpty(kind, chain, i)
          IN  /\ cur' = i
              /\ empty' = x.empty
              /\ perr' = x.err
    /\ pc' = "isEmpty"
    /\ UNCHANGED <<decodeVars, kind, chain, got, loc, fetches>>

\* page.NextPageURL()
CallNextPageURL ==
    /\ pc = "page"
    /\ \E i \in DOMAIN chain :
          LET x == NextPageURL(kind, chain, i)
          IN  /\ cur' = i
              /\ loc' = x.url
              /\ perr' = x.err
    /\ pc' = "nextPageURL"
    /\ UNCHANGED <<decodeVars, kind, chain, got, empty, fetches>>

----------------------------------------------------------------------------
(* The Pager: yield the page in hand, then decide whether to go on *)

\* the consumer starts pulling pages; the first page is the initial one
WalkStart ==
    /\ pc = "page"
    /\ pc' = "yield"
    /\ UNCHANGED <<decodeVars, pageVars>>

\* the page in hand is handed to the consumer, which extracts its entities
\* and appends them to what it has collected
WalkYield ==
    /\ pc = "yield"
    /\ LET x == Extract(kind, chain, cur)
       IN  IF x.err # "none"
           THEN /\ pc' = "failed"
                /\ perr' = x.err
                /\ got' = got
           ELSE /\ pc' = "check"
                /\ perr' = perr
                /\ got' = got \o x.list
    /\ UNCHANGED <<decodeVars, kind, chain, cur, empty, loc, fetches>>

\* after the page was yielded and before any fetch: an empty page, or a
\* page without a next locator, closes the sequence
WalkCheck ==
    /\ pc = "check"
    /\ LET e == IsEmpty(kind, chain, cur)
           n == NextPageURL(kind, chain, cur)
       IN  /\ empty' = e.empty
           /\ IF e.err # "none"
              THEN pc' = "failed" /\ perr' = e.err /\ loc' = loc
              ELSE IF e.empty
              THEN pc' = "closed" /\ perr' = perr /\ loc' = loc
              ELSE IF n.err # "none"
              THEN pc' = "failed" /\ perr' = n.err /\ loc' = loc
              ELSE IF n.url = ""
              THEN pc' = "closed" /\ perr' = perr /\ loc' = ""
              ELSE pc' = "fetch" /\ perr' = perr /\ loc' = n.url
    /\ UNCHANGED <<decodeVars, kind, chain, cur, got, fetches>>

\* the fetch capability is called with the locator; its failure ends the
\* sequence with that error and yields no page
WalkFetch ==
    /\ pc = "fetch"
    /\ fetches' = fetches + 1
    /\ LET i == Fetch(kind, chain, loc)
       IN  IF i = 0
           THEN pc' = "failed" /\ perr' = "ErrFetch" /\ cur' = cur
           ELSE pc' = "yield" /\ perr' = perr /\ cur' = i
    /\ UNCHANGED <<decodeVars, kind, chain, got, empty, loc>>

Next ==
    \/ UnmarshalImage \/ UnmarshalVolume \/ ExtractImage \/ ExtractVolume
    \/ CallExtract \/ CallIsEmpty \/ CallNextPageURL
    \/ WalkStart \/ WalkYield \/ WalkCheck \/ WalkFetch

Spec == Init /\ [][Next]_vars

----------------------------------------------------------------------------
(* Vocabulary of the properties *)

\* the wire names of the modeled attributes: the json tags of Image and of
\* the transient struct of UnmarshalJSON
ImageWireNames ==
    {f.tag : f \in {g \in Range(ImageStruct) \cup Range(TmpStruct) :
                        g.hasTag /\ g.tag # "-"}}

IsGoodTime(v) == v \in {JStr(GoodCreated), JStr(GoodUpdated)}

\* fields other than the timestamps hold what the decoder accepts
OtherFieldsValid(b) ==
    /\ b.id.t \in {"absent", "string"}
    /\ b.size.t \in {"absent", "number"}

\* z is the number n (in tenths) with its fraction cut off
IsTruncation(z, n) ==
    /\ n >= 0 => (10 * z <= n /\ n < 10 * z + 10)
    /\ n < 0 => (10 * z >= n /\ n > 10 * z - 10)

\* an element no decoder accepts: a known field of the wrong JSON type
IsMalformedItem(b) == b.size.t = "string" \/ b.id.t = "number"

\* what the good items of the pages stand for
ExpectedEntity(b) ==
    CASE b = ImageA ->
           [ID |-> "img-1", SizeBytes |-> 1,
            CreatedAt |-> "2016-01-01 10:00:00 +0000 UTC",
            UpdatedAt |-> "2016-02-02 20:00:00 +0000 UTC",
            Properties |-> [k \in {"foo"} |-> "bar"]]
      [] b = ImageB ->
           [ID |-> "img-1", SizeBytes |-> 1,
            CreatedAt |-> "2016-01-01 10:00:00 +0000 UTC",
            UpdatedAt |-> "2016-02-02 20:00:00 +0000 UTC",
            Properties |-> EmptyMap]
      [] b = VolumeA -> [ID |-> "img-1", Size |-> 1]
      [] b = VolumeB -> [ID |-> "img-1", Size |-> 0]
      [] OTHER -> [ID |-> "undecodable"]

GoodItems == {ImageA, ImageB, VolumeA, VolumeB}

\* the entities of pages 1..n, page after page
RECURSIVE ConcatExpected(_, _)
ConcatExpected(ch, n) ==
    IF n = 0 THEN << >>
    ELSE ConcatExpected(ch, n - 1)
         \o [j \in 1..Len(ch[n].items) |-> ExpectedEntity(ch[n].items[j])]

\* every page but the last refers to the next one, the last to none
LinkedChain(ch) ==
    \A i \in DOMAIN ch :
        IF i < Len(ch) THEN ch[i].next = "link" ELSE ch[i].next \in {"absent", "empty"}

AllItemsGood(ch) ==
    \A i \in DOMAIN ch : \A j \in DOMAIN ch[i].items : ch[i].items[j] \in GoodItems

\* a page that ends the walk: empty, or without a next reference
IsTerminalPage(pg) == pg.items = << >> \/ pg.next \in {"absent", "empty"}

WalkOver == pc \in {"closed", "failed"}

----------------------------------------------------------------------------
(* Properties *)

\* C1: after a successful decode of an Image, every top-level key that is no
\* wire name of a modeled attribute and holds a JSON string is in
\* Image.Properties with that string.  (Fails: an object without "size".)
C1_CustomStringsKept ==
    (pc = "image" /\ imgErr = "none") =>
        \A k \in TopLevelKeys(payload) :
            (k \notin ImageWireNames /\ payload[k].t = "string") =>
                /\ k \in DOMAIN img.Properties
                /\ img.Properties[k] = payload[k].s

\* C2: an Image object whose created_at or updated_at is absent, the other
\* fields being valid, decodes without error and leaves that timestamp zero,
\* whether or not size is present.  (Fails: size present, created_at absent.)
C2_AbsentTimestampTolerated ==
    ( /\ pc = "image"
      /\ OtherFieldsValid(payload)
      /\ payload.created_at = JAbsent \/ IsGoodTime(payload.created_at)
      /\ payload.updated_at = JAbsent \/ IsGoodTime(payload.updated_at)
      /\ payload.created_at = JAbsent \/ payload.updated_at = JAbsent ) =>
        /\ imgErr = "none"
        /\ payload.created_at = JAbsent => img.CreatedAt = ZeroTime
        /\ payload.updated_at = JAbsent => img.UpdatedAt = ZeroTime

\* C3: an Image object whose created_at or updated_at is present and not an
\* RFC3339 text always fails with the timestamp parse error, whatever the
\* other fields.  (Fails: size absent; updated_at malformed.)
C3_MalformedTimestampFails ==
    ( /\ pc = "image"
      /\ OtherFieldsValid(payload)
      /\ payload.created_at.t \in {"absent", "string"}
      /\ payload.updated_at.t \in {"absent", "string"}
      /\ payload.created_at = JStr(BadTime) \/ payload.updated_at = JStr(BadTime) ) =>
        imgErr = "ParseError"

\* C4: after a successful decode, Image.Properties holds no key that is the
\* wire name of a modeled attribute.  (Fails: an object without "size" that
\* has a "properties" member.)
C4_NoModeledKeyInProperties ==
    (pc \in {"image", "imageExtract"} /\ imgPtr /\ imgErr = "none") =>
        DOMAIN img.Properties \cap ImageWireNames = {}

C7_NoFetchPastTerminalPage ==
    (pc \in {"yield", "check", "fetch", "closed", "failed"}) =>
        /\ \A j \in 1..fetches :
             j \in DOMAIN chain /\ chain[j].items # << >> /\ chain[j].next = "link"
        /\ pc = "fetch" => ~IsTerminalPage(chain[cur])
        /\ chain[1].items = << >> => fetches = 0 /\ cur = 1
        /\ WalkOver => ~ENABLED Next

C7_Witness ==
    /\ pc = "closed"
    /\ Len(chain) = 2
    /\ chain[1].items = << >>
    /\ chain[1].next = "link"
    /\ fetches = 0

\* C8 as stated: the walk of a chain of pages linked by next references
\* yields the entities of all its pages, page after page, and terminates.
C8_WalkYieldsWholeChain ==
    (WalkOver /\ LinkedChain(chain) /\ AllItemsGood(chain)) =>
        pc = "closed" /\ got = ConcatExpected(chain, Len(chain))

\* C8 amended: the walk yields, in page order and each page once, the
\* entities of the pages up to and including the first page that is empty or
\* has no next reference, one fetch per page after the first, and then
\* terminates; a page whose extraction fails ends the walk with that error,
\* the pages before it having been yielded; a chain of good pages never
\* ends in an error.
C8_WalkYieldsUpToTerminalPage ==
    /\ pc = "closed" =>
         /\ IsTerminalPage(chain[cur])
         /\ \A j \in 1..(cur - 1) : ~IsTerminalPage(chain[j])
         /\ fetches = cur - 1
         /\ got = ConcatExpected(chain, cur)
    /\ pc = "failed" =>
         /\ perr # "none"
         /\ got \in {ConcatExpected(chain, cur - 1), ConcatExpected(chain, cur)}
    /\ (LinkedChain(chain) /\ AllItemsGood(chain)) => pc # "failed"

C8_Witness ==
    /\ pc = "closed"
    /\ kind = "image"
    /\ chain = << [items |-> <<ImageA>>, next |-> "link"],
                  [items |-> <<ImageB>>, next |-> "empty"] >>
    /\ got = << ExpectedEntity(ImageA), ExpectedEntity(ImageB) >>

\* C9: an envelope that carries a transport error: Extract returns that very
\* error and decodes nothing of the body, for images and for volumes.
C9_TransportErrorVerbatim ==
    /\ (pc = "imageExtract" /\ rErr # "none") =>
         imgErr = rErr /\ ~imgPtr /\ img = ZeroImage
    /\ (pc = "volumeExtract" /\ rErr # "none") =>
         volErr = rErr /\ vol = ZeroVolume

C9_Witness ==
    /\ pc = "imageExtract"
    /\ rErr = "ErrTimeout"
    /\ payload.id = JStr("img-1")
    /\ payload.size.t = "string"
    /\ imgErr = "ErrTimeout"

====
